---- MODULE Spec2Model ----
(***************************************************************************)
(* UIImage (pygame_gui/elements/ui_image.py): a UI element that displays a *)
(* pygame surface, keeps it alpha-premultiplied and keeps it scaled to the *)
(* element's rectangle across set_dimensions and set_image calls.          *)
(*                                                                         *)
(* A surface is abstracted to what the element's logic can observe:        *)
(*   id      which picture the pixels come from                            *)
(*   size    <<width, height>>                                             *)
(*   format  "source" as supplied, "alpha" after convert_alpha()           *)
(*   alpha   how many times RGB has been multiplied by alpha               *)
(*           (0 straight, 1 premultiplied, 2 multiplied twice)             *)
(*   scaled  how many resampling generations separate it from its source   *)
(*   clipped whether it is the clipped rendering of a pre-clip surface     *)
(***************************************************************************)
EXTENDS Integers, FiniteSets, Sequences, TLC

VARIABLES
    rect,               \* self.rect.size
    image,              \* self.image, the displayed surface
    original_image,     \* self.original_image
    pre_clipped_image,  \* self._pre_clipped_image
    last_call,          \* name of the call that returned last
    supplied            \* arguments of the latest __init__ / set_image call

vars == <<rect, image, original_image, pre_clipped_image, last_call, supplied>>

\* Largest width/height of a rectangle or supplied surface.
MaxSize == 2
\* Number of distinct pictures a caller can supply.
NumImages == 2

\* Python's None (a record, so that it compares with surfaces).
None == [none |-> TRUE]

Sizes == (1..MaxSize) \X (1..MaxSize)

\* The pixels of picture i as the caller holds them: odd pictures are
\* straight-alpha (0), even ones already alpha-premultiplied (1).
PictureAlpha(i) == (i + 1) % 2

\* Surfaces a caller can pass as image_surface / new_image: any picture at
\* any size.
InputSurfaces ==
    { [id |-> i, size |-> sz, format |-> "source", alpha |-> PictureAlpha(i),
       scaled |-> 0, clipped |-> FALSE] : i \in 1..NumImages, sz \in Sizes }

\* Surface.convert_alpha(): a new surface in the display's per-pixel-alpha format.
convert_alpha(s) == [s EXCEPT !.format = "alpha"]

\* premul_alpha_surface(): every RGB channel multiplied by its alpha.
premul_alpha_surface(s) == [s EXCEPT !.alpha = @ + 1]

\* pygame.transform.smoothscale(surface, size): a resampled surface of the
\* given size; a same-size call copies the pixels unchanged.
smoothscale(s, size) ==
    IF s.size = size THEN s
    ELSE [s EXCEPT !.size = size, !.scaled = @ + 1]

\* The clipped rendering of a surface (same size, content outside the clip blanked).
Clip(s) == [s EXCEPT !.clipped = TRUE]

\* UIElement._set_image(new_image): installs the displayed surface. While the
\* base element has a pre-clip surface recorded, the new surface becomes the
\* pre-clip surface and its clipped rendering is displayed.
_set_image(pre, new_image) ==
    IF pre # None
    THEN [image |-> Clip(new_image), pre_clipped_image |-> new_image]
    ELSE [image |-> new_image, pre_clipped_image |-> None]

\* UIElement.set_dimensions(dimensions): the rectangle takes the new size.
super_set_dimensions(dimensions) == dimensions

\* Lines 88-90 with the premultiplication applied whatever the flag says.
Converted_always(new_image, image_is_alpha_premultiplied) ==
    premul_alpha_surface(convert_alpha(new_image))

\* The surface set_image works with after lines 88-90.
Converted(new_image, image_is_alpha_premultiplied) ==
    IF ~image_is_alpha_premultiplied
    THEN premul_alpha_surface(convert_alpha(new_image))
    ELSE convert_alpha(new_image)

\* set_image with the size test written with "and" instead of "or".
set_image_result_and(r, orig, pre, new_image, image_is_alpha_premultiplied) ==
    LET image_surface == Converted(new_image, image_is_alpha_premultiplied)
    IN  IF image_surface.size[1] # r[1] /\ image_surface.size[2] # r[2]
        THEN LET disp == _set_image(pre, smoothscale(image_surface, r))
             IN  [original_image |-> image_surface,
                  image |-> disp.image,
                  pre_clipped_image |-> disp.pre_clipped_image]
        ELSE LET disp == _set_image(pre, image_surface)
             IN  [original_image |-> orig,
                  image |-> disp.image,
                  pre_clipped_image |-> disp.pre_clipped_image]

\* set_image without the assignment to original_image on a size mismatch.
set_image_result_keep_original(r, orig, pre, new_image, image_is_alpha_premultiplied) ==
    LET image_surface == Converted(new_image, image_is_alpha_premultiplied)
        disp == _set_image(pre, smoothscale(image_surface, r))
    IN  [original_image |-> orig,
         image |-> disp.image,
         pre_clipped_image |-> disp.pre_clipped_image]

\* set_image storing the converted surface as the original in both branches.
set_image_result_always_store(r, orig, pre, new_image, image_is_alpha_premultiplied) ==
    LET image_surface == Converted(new_image, image_is_alpha_premultiplied)
        disp == _set_image(pre, smoothscale(image_surface, r))
    IN  [original_image |-> image_surface,
         image |-> disp.image,
         pre_clipped_image |-> disp.pre_clipped_image]

\* UIImage.set_image as a function of the fields it reads; the result holds
\* the fields it writes.
set_image_result(r, orig, pre, new_image, image_is_alpha_premultiplied) ==
    LET image_surface == Converted(new_image, image_is_alpha_premultiplied)
    IN  IF image_surface.size[1] # r[1] \/ image_surface.size[2] # r[2]
        THEN LET disp == _set_image(pre, smoothscale(image_surface, r))
             IN  [original_image |-> image_surface,
                  image |-> disp.image,
                  pre_clipped_image |-> disp.pre_clipped_image]
        ELSE LET disp == _set_image(pre, image_surface)
             IN  [original_image |-> orig,
                  image |-> disp.image,
                  pre_clipped_image |-> disp.pre_clipped_image]

\* UIImage.__init__: original_image = None, then set_image(image_surface, flag).
Construct(relative_rect, image_surface, image_is_alpha_premultiplied) ==
    LET res == set_image_result(relative_rect, None, None, image_surface,
                                image_is_alpha_premultiplied)
    IN  /\ rect = relative_rect
        /\ image = res.image
        /\ original_image = res.original_image
        /\ pre_clipped_image = res.pre_clipped_image
        /\ last_call = "__init__"
        /\ supplied = [new_image |-> image_surface,
                       premul |-> image_is_alpha_premultiplied]

Init ==
    \E relative_rect \in Sizes, image_surface \in InputSurfaces,
       image_is_alpha_premultiplied \in BOOLEAN :
        Construct(relative_rect, image_surface, image_is_alpha_premultiplied)

\* UIImage.set_image(new_image, image_is_alpha_premultiplied)
set_image(new_image, image_is_alpha_premultiplied) ==
    LET res == set_image_result(rect, original_image, pre_clipped_image,
                                new_image, image_is_alpha_premultiplied)
    IN  /\ image' = res.image
        /\ original_image' = res.original_image
        /\ pre_clipped_image' = res.pre_clipped_image
        /\ last_call' = "set_image"
        /\ supplied' = [new_image |-> new_image,
                        premul |-> image_is_alpha_premultiplied]
        /\ UNCHANGED rect

\* Lines 67-71 without the "original_image is None" test: the displayed
\* surface (or the pre-clip surface) is captured on every rescale.
CapturedOriginal_displayed(orig, pre, img) ==
    IF pre # None THEN pre ELSE img

\* Lines 67-71 without the pre-clip preference.
CapturedOriginal_no_preclip(orig, pre, img) ==
    IF orig = None THEN img ELSE orig

\* The original set_dimensions rescales from (lines 67-71).
CapturedOriginal(orig, pre, img) ==
    IF orig = None
    THEN IF pre # None THEN pre ELSE img
    ELSE orig

\* set_dimensions without the size test of line 66: it rescales on every call.
set_dimensions_always_rescale(dimensions) ==
    LET r == super_set_dimensions(dimensions)
        orig == IF original_image = None
                THEN IF pre_clipped_image # None THEN pre_clipped_image ELSE image
                ELSE original_image
        disp == _set_image(pre_clipped_image, smoothscale(orig, r))
    IN  /\ rect' = r
        /\ original_image' = orig
        /\ image' = disp.image
        /\ pre_clipped_image' = disp.pre_clipped_image
        /\ last_call' = "set_dimensions"
        /\ UNCHANGED supplied

\* UIImage.set_dimensions(dimensions)
set_dimensions(dimensions) ==
    LET r == super_set_dimensions(dimensions)
    IN  /\ rect' = r
        /\ IF r # image.size
           THEN LET orig == CapturedOriginal(original_image, pre_clipped_image, image)
                    disp == _set_image(pre_clipped_image, smoothscale(orig, r))
                IN  /\ original_image' = orig
                    /\ image' = disp.image
                    /\ pre_clipped_image' = disp.pre_clipped_image
           ELSE UNCHANGED <<image, original_image, pre_clipped_image>>
        /\ last_call' = "set_dimensions"
        /\ UNCHANGED supplied

\* The base element starts clipping its image (its container clips it): the
\* displayed surface is recorded as the pre-clip surface and replaced by its
\* clipped rendering.
set_image_clip ==
    /\ pre_clipped_image = None
    /\ pre_clipped_image' = image
    /\ image' = Clip(image)
    /\ last_call' = "set_image_clip"
    /\ UNCHANGED <<rect, original_image, supplied>>

\* The base element stops clipping: the pre-clip surface is displayed again
\* and the slot is cleared.
restore_clipped_image ==
    /\ pre_clipped_image # None
    /\ image' = pre_clipped_image
    /\ pre_clipped_image' = None
    /\ last_call' = "restore_clipped_image"
    /\ UNCHANGED <<rect, original_image, supplied>>

SetImageStep ==
    \E new_image \in InputSurfaces, image_is_alpha_premultiplied \in BOOLEAN :
        set_image(new_image, image_is_alpha_premultiplied)

SetDimensionsStep == \E dimensions \in Sizes : set_dimensions(dimensions)

Next ==
    \/ SetImageStep
    \/ SetDimensionsStep
    \/ set_image_clip
    \/ restore_clipped_image

Spec == Init /\ [][Next]_vars

\* What the element shows, before clipping: the surface last handed to
\* _set_image (the pre-clip surface while one is recorded, else self.image).
Shown == IF pre_clipped_image # None THEN pre_clipped_image ELSE image

\* The converted form of the bitmap of the latest __init__ / set_image call.
SuppliedConverted == Converted(supplied.new_image, supplied.premul)

----------------------------------------------------------------------------
\* C1: after construction and after every set_image / set_dimensions call the
\* displayed bitmap's size equals the rectangle's size.
C1_DisplayedSizeIsRectSize == image.size = rect

\* C1 witness: set_image supplied picture 2, then set_dimensions rescaled it
\* to the requested size.
C1_Witness ==
    /\ last_call = "set_dimensions"
    /\ supplied.new_image.id = 2
    /\ image.id = 2
    /\ image.scaled = 1
    /\ supplied.new_image.size # rect

\* C2: the displayed bitmap is derived from the bitmap of the latest
\* set_image (or constructor) call: its converted form, or the smooth-scale
\* of that to the rectangle size.
C2_DisplayedFromLatestSetImage ==
    Shown = smoothscale(SuppliedConverted, rect)

\* C3: whenever an original bitmap is held, it is the converted form of the
\* bitmap of the latest set_image (or constructor) call.
C3_OriginalIsLatestSupplied ==
    original_image # None => original_image = SuppliedConverted

\* C4: every rescale starts from the unscaled original: a held original is
\* never a resampled or clipped surface, the displayed bitmap is at most one
\* resampling away from its source, and a resampled displayed bitmap is
\* exactly smoothscale(original, rectangle size).
C4_RescaleFromOriginal ==
    /\ original_image # None =>
          /\ original_image.scaled = 0
          /\ ~original_image.clipped
    /\ Shown.scaled <= 1
    /\ Shown.scaled = 1 =>
          /\ original_image # None
          /\ Shown = smoothscale(original_image, rect)

\* C4 witness: a resize produced a resampled displayed bitmap whose size
\* differs from the size the original keeps.
C4_Witness ==
    /\ last_call = "set_dimensions"
    /\ original_image # None
    /\ original_image.size # rect
    /\ Shown.scaled = 1
    /\ Shown.size = rect

\* C5 (as stated): the displayed bitmap is always derived from the original:
\* its smooth-scale to the rectangle size, or the original itself when the
\* sizes are equal.
C5_DisplayedFromOriginal ==
    /\ original_image # None
    /\ Shown = smoothscale(original_image, rect)

\* C5 (amended): the displayed bitmap is the smooth-scale of the held
\* original to the rectangle size (the original itself at equal sizes), or
\* else it is the unscaled converted bitmap, of exactly the rectangle's size,
\* of the latest set_image / constructor call; the second is the only case
\* while no original is held.
C5_DisplayedFromOriginalOrSupplied ==
    /\ \/ /\ original_image # None
          /\ Shown = smoothscale(original_image, rect)
       \/ /\ Shown = SuppliedConverted
          /\ Shown.size = rect
    /\ original_image = None => Shown = SuppliedConverted

\* C5 witness: an original is held, yet the displayed bitmap is the bitmap of
\* a later same-size set_image, unrelated to that original.
C5_Witness ==
    /\ last_call = "set_image"
    /\ original_image # None
    /\ Shown.id # original_image.id
    /\ Shown = SuppliedConverted

\* C6: set_dimensions with the size the rectangle already has (so also a
\* second identical call in a row) rescales nothing: displayed, pre-clip and
\* original bitmaps stay exactly as they were.
C6_ResizeIdempotent ==
    [][(last_call' = "set_dimensions" /\ rect' = rect)
        => /\ image' = image
           /\ original_image' = original_image
           /\ pre_clipped_image' = pre_clipped_image]_vars

\* C6 witness: a set_dimensions call returned and still no original is held,
\* which only a size-preserving call leaves behind.
C6_Witness ==
    /\ last_call = "set_dimensions"
    /\ original_image = None
    /\ image = SuppliedConverted

\* C7: set_image (and the constructor) multiplies the converted bitmap by
\* its alpha exactly when the flag is false and exactly once, so a bitmap
\* whose flag describes it is displayed premultiplied; set_dimensions never
\* multiplies again: the bitmaps it leaves are as multiplied as the ones it
\* found.
C7_Premultiplied ==
    /\ [][last_call' = "set_image" =>
            /\ Shown'.format = "alpha"
            /\ Shown'.alpha = supplied'.new_image.alpha
                              + (IF supplied'.premul THEN 0 ELSE 1)
            /\ (supplied'.premul <=> supplied'.new_image.alpha = 1)
                  => Shown'.alpha = 1
            /\ original_image' # original_image =>
                  original_image'.alpha = Shown'.alpha]_vars
    /\ [][last_call' = "set_dimensions" =>
            /\ original_image # None =>
                  original_image'.alpha = original_image.alpha
            /\ original_image = None =>
                  (original_image' = None \/ original_image'.alpha = Shown.alpha)
            /\ \/ Shown'.alpha = Shown.alpha
               \/ /\ original_image' # None
                  /\ Shown'.alpha = original_image'.alpha]_vars
    /\ [](last_call = "__init__" =>
            Shown.alpha = supplied.new_image.alpha
                          + (IF supplied.premul THEN 0 ELSE 1))

\* C7 witness: a premultiplied bitmap supplied with the flag set has been
\* rescaled by set_dimensions and is still multiplied exactly once.
C7_Witness ==
    /\ last_call = "set_dimensions"
    /\ supplied.premul
    /\ supplied.new_image.alpha = 1
    /\ image.id = supplied.new_image.id
    /\ image.scaled = 1
    /\ image.alpha = 1

\* C8 (as stated): the original is unset when the constructor returns,
\* whatever the bitmap and rectangle, and only a set_dimensions call whose
\* size differs from the displayed bitmap's size sets it.
C8_UnsetAfterConstruction ==
    /\ [](last_call = "__init__" => original_image = None)
    /\ [][(original_image = None /\ original_image' # None)
            => /\ last_call' = "set_dimensions"
               /\ rect' # image.size]_vars

\* C8 (amended): the original is unset when the constructor returns exactly
\* when the bitmap has the rectangle's size (otherwise the constructor stores
\* it), and it then stays unset until a set_dimensions call whose size
\* differs from the displayed bitmap's size or a set_image call whose bitmap
\* differs in size from the rectangle.
C8_UnsetAfterSameSizeConstruction ==
    /\ [](last_call = "__init__" =>
            (original_image = None <=> supplied.new_image.size = rect))
    /\ [][(original_image = None /\ original_image' # None)
            => \/ /\ last_call' = "set_dimensions"
                  /\ rect' # image.size
               \/ /\ last_call' = "set_image"
                  /\ supplied'.new_image.size # rect]_vars

\* C8 witness: constructed at matching size, clipped and unclipped by the
\* base element, and still no original is held.
C8_Witness ==
    /\ last_call = "restore_clipped_image"
    /\ original_image = None
    /\ image = SuppliedConverted

\* C9: set_image stores the converted bitmap as the original iff its size
\* differs from the rectangle's; on a mismatch the displayed bitmap is its
\* smooth-scale, on a match the converted bitmap is displayed and the
\* original is left as it was.
C9_SetImageBranches ==
    [][last_call' = "set_image" =>
        LET image_surface == Converted(supplied'.new_image, supplied'.premul)
        IN  IF image_surface.size # rect
            THEN /\ original_image' = image_surface
                 /\ Shown' = smoothscale(image_surface, rect)
                 /\ Shown'.scaled = 1
            ELSE /\ original_image' = original_image
                 /\ Shown' = image_surface]_vars

\* C9 witness: a same-size set_image returned and the original held is still
\* the earlier picture.
C9_Witness ==
    /\ last_call = "set_image"
    /\ supplied.new_image.size = rect
    /\ original_image # None
    /\ original_image.id # supplied.new_image.id
    /\ image.id = supplied.new_image.id

\* C10: set_dimensions captures an original only when the new size differs
\* from the displayed bitmap's size and none is held; it takes the pre-clip
\* bitmap when one is recorded and the displayed bitmap otherwise; a held
\* original is never replaced.
C10_CaptureOnResize ==
    [][last_call' = "set_dimensions" =>
        /\ original_image # None => original_image' = original_image
        /\ (original_image = None /\ rect' = image.size)
              => original_image' = None
        /\ (original_image = None /\ rect' # image.size)
              => original_image' =
                    IF pre_clipped_image # None THEN pre_clipped_image ELSE image]_vars

\* C10 witness: a resize captured the pre-clip bitmap (unclipped) as the
\* original while the element is clipped.
C10_Witness ==
    /\ last_call = "set_dimensions"
    /\ pre_clipped_image # None
    /\ image.clipped
    /\ original_image # None
    /\ ~original_image.clipped
    /\ original_image = SuppliedConverted
    /\ original_image.size # rect

====
